---- MODULE Spec2Model ----
(***************************************************************************)
(* wagtailmodeladmin/options.py: ModelAdmin, ModelAdminGroup and the       *)
(* WagtailRegisterable mixin that wires them into Wagtail's hooks.         *)
(*                                                                         *)
(* Python values are modelled as tagged records so that truthiness         *)
(* (`x or default`, `not x`) is computed the way Python computes it.       *)
(***************************************************************************)
EXTENDS Integers, Sequences, FiniteSets, TLC

VARIABLES hooks, instance, result, SNIPPET_MODELS, next_id

vars == <<hooks, instance, result, SNIPPET_MODELS, next_id>>

(***************************************************************************)
(* Bounds                                                                  *)
(***************************************************************************)
\* largest menu_order a class declares (declared values are 0..MaxMenuOrder)
MaxMenuOrder == 2
\* longest `items` sequence of a ModelAdminGroup called directly
MaxItems == 3
\* longest `items` sequence of a group registered at startup
MaxStartupItems == 2
\* number of classes passed to wagtailmodeladmin_register at startup
MaxRegistered == 2
\* number of times a caller registers the object it holds
MaxSelfRegistered == 1

(***************************************************************************)
(* Python values                                                           *)
(***************************************************************************)
PyNone == [t |-> "None", v |-> ""]
PyInt(n) == [t |-> "int", v |-> n]
PyStr(s) == [t |-> "str", v |-> s]
PyClass(name) == [t |-> "class", v |-> name]

\* bool(x): None, 0 and '' are false; classes and everything else are true
Truthy(x) ==
  CASE x.t = "None" -> FALSE
    [] x.t = "int" -> x.v # 0
    [] x.t = "str" -> x.v # ""
    [] OTHER -> TRUE

\* Python's `a or b`
PyOr(a, b) == IF Truthy(a) THEN a ELSE b

(***************************************************************************)
(* The classes a project can name in `model`, and their direct base        *)
(***************************************************************************)
ModelBase == "django.db.models.Model"
PageBase == "wagtail.wagtailcore.models.Page"

Base(c) ==
  CASE c = "lib.Book" -> ModelBase
    [] c = "shop.Book" -> ModelBase
    [] c = "events.EventPage" -> PageBase
    [] c = PageBase -> ModelBase
    [] OTHER -> "object"

RECURSIVE IsSubclassName(_, _)
IsSubclassName(c, b) ==
  IF c = b THEN TRUE
  ELSE IF c = "object" THEN FALSE
  ELSE IsSubclassName(Base(c), b)

\* issubclass(x, base): "TypeError" when x is not a class
issubclass(x, b) ==
  IF x.t # "class" THEN "TypeError"
  ELSE IF IsSubclassName(x.v, b) THEN "True" ELSE "False"

\* model._meta: app_label and model_name (the lower-cased class name)
Meta(c) ==
  CASE c = "lib.Book" -> [app_label |-> "lib", model_name |-> "book"]
    [] c = "shop.Book" -> [app_label |-> "shop", model_name |-> "book"]
    [] c = "events.EventPage" ->
         [app_label |-> "events", model_name |-> "eventpage"]
    [] OTHER -> [app_label |-> "", model_name |-> ""]

ConcreteModels == {"lib.Book", "shop.Book", "events.EventPage"}

\* values a developer may leave or put in `model`
ModelAttrs ==
  {PyNone, PyStr(""), PyStr("lib.Book"), PyClass("object")}
    \cup {PyClass(c) : c \in ConcreteModels}

MenuOrders == {PyNone} \cup {PyInt(n) : n \in 0..MaxMenuOrder}

RenderableActions ==
  {"index", "create", "edit", "confirm_delete", "choose_parent"}

\* the <action>_template_name class attributes ('' by default)
TemplateNameAttrs ==
  { [a \in RenderableActions |-> IF a \in S THEN "custom/" \o a \o ".html" ELSE ""] :
      S \in {{}, {"index"}, {"edit", "confirm_delete"}, RenderableActions} }

NoTemplateNames == [a \in RenderableActions |-> ""]

(***************************************************************************)
(* Declared classes.  Attributes a subclass does not set keep the defaults *)
(* of ModelAdmin (model = None, menu_order = None, *_template_name = '')   *)
(* and ModelAdminGroup (items = (), menu_order = None).                    *)
(***************************************************************************)
ModelAdminClass(m, o, tn) ==
  [kind |-> "ModelAdmin", model |-> m, menu_order |-> o, template_names |-> tn]

ModelAdminGroupClass(its, o) ==
  [kind |-> "ModelAdminGroup", items |-> its, menu_order |-> o]

ModelAdminClasses ==
  {ModelAdminClass(m, o, tn) :
     m \in ModelAttrs, o \in MenuOrders, tn \in TemplateNameAttrs}

\* sequences of length 0..n over S
SeqUpTo(S, n) == UNION {[1..k -> S] : k \in 0..n}

\* classes listed in the `items` of a group
ItemClasses ==
  {ModelAdminClass(m, PyNone, NoTemplateNames) :
     m \in {PyStr("lib.Book")} \cup {PyClass(c) : c \in ConcreteModels}}
    \cup {ModelAdminClass(PyClass("lib.Book"), PyInt(MaxMenuOrder),
                          NoTemplateNames)}

ModelAdminGroupClasses ==
  {ModelAdminGroupClass(its, o) :
     its \in SeqUpTo(ItemClasses, MaxItems), o \in MenuOrders}

\* classes a project's wagtail_hooks.py passes to wagtailmodeladmin_register
StartupItemClasses ==
  {ModelAdminClass(m, PyInt(MaxMenuOrder), NoTemplateNames) :
     m \in {PyStr("lib.Book"), PyClass("lib.Book")}}

StartupClasses ==
  {ModelAdminClass(m, PyNone, NoTemplateNames) : m \in ModelAttrs}
    \cup {ModelAdminGroupClass(its, PyNone) :
            its \in SeqUpTo(StartupItemClasses, MaxStartupItems)}

(***************************************************************************)
(* Objects.  `id` stands for Python object identity.                       *)
(***************************************************************************)
NoInstance == [kind |-> "none"]
Ref(id) == [t |-> "object", v |-> id]

\* ModelAdmin.__init__(self, parent=None); `id` is the identity of self
ModelAdmin__init__(cls, parent, id) ==
  IF ~Truthy(cls.model) THEN
    [raised |-> "ImproperlyConfigured", self |-> NoInstance]
  ELSE IF issubclass(cls.model, ModelBase) = "TypeError" THEN
    [raised |-> "TypeError", self |-> NoInstance]
  ELSE IF issubclass(cls.model, ModelBase) = "False" THEN
    [raised |-> "ImproperlyConfigured", self |-> NoInstance]
  ELSE
    LET is_pagemodel == issubclass(cls.model, PageBase) = "True" IN
    [raised |-> "",
     self |-> [kind |-> "ModelAdmin", id |-> id, cls |-> cls,
               opts |-> Meta(cls.model.v),
               is_pagemodel |-> is_pagemodel,
               parent |-> parent,
               permission_helper |->
                 IF is_pagemodel THEN "PagePermissionHelper"
                 ELSE "PermissionHelper"]]

\* ModelAdminGroup.__init__(self): the children are built in `items` order,
\* each with parent=self; the first child that raises ends the constructor
ModelAdminGroup__init__(cls, id) ==
  LET n == Len(cls.items)
      child(i) == ModelAdmin__init__(cls.items[i], Ref(id), id + i)
      failed == {i \in 1..n : child(i).raised # ""}
  IN IF failed # {} THEN
       LET first == CHOOSE i \in failed : \A j \in failed : i <= j IN
       [raised |-> child(first).raised, self |-> NoInstance]
     ELSE
       [raised |-> "",
        self |-> [kind |-> "ModelAdminGroup", id |-> id, cls |-> cls,
                  modeladmin_instances |-> [i \in 1..n |-> child(i).self]]]

\* wagtailmodeladmin_class(): the constructor of whichever class is given
Construct(cls, id) ==
  IF cls.kind = "ModelAdmin" THEN ModelAdmin__init__(cls, PyNone, id)
  ELSE ModelAdminGroup__init__(cls, id)

\* objects allocated by a successful construction
Allocated(cls) == IF cls.kind = "ModelAdmin" THEN 1 ELSE 1 + Len(cls.items)

(***************************************************************************)
(* ModelAdmin methods                                                      *)
(***************************************************************************)
DefaultMenuOrder == 999

\* ModelAdmin.get_menu_order: `return self.menu_order or 999`
ModelAdmin_get_menu_order(self) ==
  PyOr(self.cls.menu_order, PyInt(DefaultMenuOrder)).v

\* ModelAdminMenuItem(model_admin, order)
ModelAdminMenuItem(model_admin, order) ==
  [type |-> "ModelAdminMenuItem", model_admin |-> model_admin.id,
   order |-> order]

\* ModelAdmin.get_menu_item(self, order=None)
ModelAdmin_get_menu_item(self, order) ==
  ModelAdminMenuItem(self,
    PyOr(order, PyInt(ModelAdmin_get_menu_order(self))).v)

TemplatePrefix == "wagtailmodeladmin/"

\* ModelAdmin.get_templates(self, action='index')
get_templates(self, action) ==
  LET app == self.opts.app_label
      model_name == self.opts.model_name
  IN << TemplatePrefix \o app \o "/" \o model_name \o "/" \o action \o ".html",
        TemplatePrefix \o app \o "/" \o action \o ".html",
        TemplatePrefix \o action \o ".html" >>

\* `self.<x>_template_name or self.get_templates('<x>')`: a name, or a list
TemplateOr(name, templates) ==
  IF Truthy(PyStr(name)) THEN [t |-> "str", v |-> name]
  ELSE [t |-> "list", v |-> templates]

get_index_template(self) ==
  TemplateOr(self.cls.template_names["index"], get_templates(self, "index"))

\* mutant: get_templates() called without its action argument
get_choose_parent_template_DefaultAction(self) ==
  TemplateOr(self.cls.template_names["choose_parent"],
             get_templates(self, "index"))

get_choose_parent_template(self) ==
  TemplateOr(self.cls.template_names["choose_parent"],
             get_templates(self, "choose_parent"))

get_create_template(self) ==
  TemplateOr(self.cls.template_names["create"], get_templates(self, "create"))

get_edit_template(self) ==
  TemplateOr(self.cls.template_names["edit"], get_templates(self, "edit"))

get_confirm_delete_template(self) ==
  TemplateOr(self.cls.template_names["confirm_delete"],
             get_templates(self, "confirm_delete"))

\* the template getter of the view that renders `action`
TemplateGetter(self, action) ==
  CASE action = "index" -> get_index_template(self)
    [] action = "choose_parent" -> get_choose_parent_template(self)
    [] action = "create" -> get_create_template(self)
    [] action = "edit" -> get_edit_template(self)
    [] action = "confirm_delete" -> get_confirm_delete_template(self)

\* rows of django.contrib.auth's Permission table, with the app label and
\* model of each row's content type
PermissionTable ==
  {[codename |-> verb \o "_" \o ct[2], app_label |-> ct[1], model |-> ct[2]] :
     verb \in {"add", "change", "delete"},
     ct \in {<<"lib", "book">>, <<"lib", "author">>, <<"shop", "book">>,
             <<"events", "eventpage">>}}

\* mutant: the filter on the content type's app label is missing
ModelAdmin_get_permissions_ModelNameOnly(self, snippets) ==
  IF ~self.is_pagemodel /\ self.cls.model.v \notin snippets THEN
    {p \in PermissionTable : p.model = self.opts.model_name}
  ELSE {}

\* ModelAdmin.get_permissions_for_registration(self); `snippets` is
\* wagtailsnippets' SNIPPET_MODELS at the time of the call
ModelAdmin_get_permissions_for_registration(self, snippets) ==
  IF ~self.is_pagemodel /\ self.cls.model.v \notin snippets THEN
    {p \in PermissionTable :
       /\ p.app_label = self.opts.app_label
       /\ p.model = self.opts.model_name}
  ELSE {}

\* utils.get_url_pattern(model_meta, action=None); "" stands for no action
get_url_pattern(opts, action) ==
  opts.app_label \o "/" \o opts.model_name \o "/"
    \o (IF action = "" THEN "" ELSE action \o "/")

\* utils.get_object_specific_url_pattern(model_meta, action)
get_object_specific_url_pattern(opts, action) ==
  opts.app_label \o "/" \o opts.model_name \o "/" \o action \o "/<id>/"

\* utils.get_url_name(model_meta, action='index'); "" stands for no action
get_url_name(opts, action) ==
  opts.app_label \o "_" \o opts.model_name \o "_modeladmin_"
    \o (IF action = "" THEN "index" ELSE action)

\* django.conf.urls.url(regex, view, name=...); view is a bound method
url(regex, self, view, name) ==
  [regex |-> regex, callback |-> [self |-> self.id, func |-> view],
   name |-> name]

\* mutant: the copy route is registered under the name of unpublish
ModelAdmin_get_admin_urls_DuplicateName(self) ==
  << url(get_url_pattern(self.opts, ""), self, "index_view",
         get_url_name(self.opts, "")),
     url(get_url_pattern(self.opts, "create"), self, "create_view",
         get_url_name(self.opts, "create")),
     url(get_url_pattern(self.opts, "choose_parent"), self,
         "choose_parent_view", get_url_name(self.opts, "choose_parent")),
     url(get_object_specific_url_pattern(self.opts, "edit"), self,
         "edit_view", get_url_name(self.opts, "edit")),
     url(get_object_specific_url_pattern(self.opts, "confirm_delete"), self,
         "confirm_delete_view", get_url_name(self.opts, "confirm_delete")),
     url(get_object_specific_url_pattern(self.opts, "unpublish"), self,
         "unpublish_view", get_url_name(self.opts, "unpublish")),
     url(get_object_specific_url_pattern(self.opts, "copy"), self,
         "copy_view", get_url_name(self.opts, "unpublish")) >>

\* ModelAdmin.get_admin_urls_for_registration(self)
ModelAdmin_get_admin_urls_for_registration(self) ==
  << url(get_url_pattern(self.opts, ""), self, "index_view",
         get_url_name(self.opts, "")),
     url(get_url_pattern(self.opts, "create"), self, "create_view",
         get_url_name(self.opts, "create")),
     url(get_url_pattern(self.opts, "choose_parent"), self,
         "choose_parent_view", get_url_name(self.opts, "choose_parent")),
     url(get_object_specific_url_pattern(self.opts, "edit"), self,
         "edit_view", get_url_name(self.opts, "edit")),
     url(get_object_specific_url_pattern(self.opts, "confirm_delete"), self,
         "confirm_delete_view", get_url_name(self.opts, "confirm_delete")),
     url(get_object_specific_url_pattern(self.opts, "unpublish"), self,
         "unpublish_view", get_url_name(self.opts, "unpublish")),
     url(get_object_specific_url_pattern(self.opts, "copy"), self,
         "copy_view", get_url_name(self.opts, "copy")) >>

\* the view dispatch methods and the <x>_view_class attribute each reads
ViewMethods ==
  {"index_view", "create_view", "choose_parent_view", "edit_view",
   "confirm_delete_view", "unpublish_view", "copy_view"}

ObjectViewMethods ==
  {"edit_view", "confirm_delete_view", "unpublish_view", "copy_view"}

ViewClass(view) ==
  CASE view = "index_view" -> "IndexView"
    [] view = "create_view" -> "CreateView"
    [] view = "choose_parent_view" -> "ChooseParentView"
    [] view = "edit_view" -> "EditView"
    [] view = "confirm_delete_view" -> "ConfirmDeleteView"
    [] view = "unpublish_view" -> "UnpublishRedirectView"
    [] view = "copy_view" -> "CopyRedirectView"

\* object ids captured from the URL
ObjectIds == {"7"}

\* ModelAdmin.<x>_view(self, request[, object_id]): the view class and the
\* kwargs given to view_class.as_view(**kwargs); the view handles the request
view_dispatch(self, view, object_id) ==
  IF view \in ObjectViewMethods
  THEN [view_class |-> ViewClass(view), model_admin |-> self.id,
        object_id |-> object_id]
  ELSE [view_class |-> ViewClass(view), model_admin |-> self.id,
        object_id |-> ""]

(***************************************************************************)
(* ModelAdminGroup methods                                                 *)
(***************************************************************************)
\* ModelAdminGroup.get_menu_order: `return self.menu_order or 999`
ModelAdminGroup_get_menu_order(self) ==
  PyOr(self.cls.menu_order, PyInt(DefaultMenuOrder)).v

\* mutant: the order is passed before it is incremented (numbering from 0)
RECURSIVE SubMenuItems_ZeroBased(_, _, _)
SubMenuItems_ZeroBased(instances, menu_items, item_order) ==
  IF instances = <<>> THEN menu_items
  ELSE SubMenuItems_ZeroBased(Tail(instances),
         Append(menu_items,
                ModelAdmin_get_menu_item(Head(instances),
                                         PyInt(item_order))),
         item_order + 1)

\* the loop of ModelAdminGroup.get_menu_item: item_order is incremented
\* before each child's get_menu_item(order=item_order)
RECURSIVE SubMenuItems(_, _, _)
SubMenuItems(instances, menu_items, item_order) ==
  IF instances = <<>> THEN menu_items
  ELSE SubMenuItems(Tail(instances),
         Append(menu_items,
                ModelAdmin_get_menu_item(Head(instances),
                                         PyInt(item_order + 1))),
         item_order + 1)

\* mutant: the `if self.modeladmin_instances` test is missing
ModelAdminGroup_get_menu_item_NoTest(self) ==
  [type |-> "GroupMenuItem", modeladmin_group |-> self.id,
   order |-> ModelAdminGroup_get_menu_order(self),
   submenu |-> [type |-> "SubMenu",
                menu_items |-> SubMenuItems(self.modeladmin_instances,
                                            <<>>, 0)]]

\* ModelAdminGroup.get_menu_item(self): a GroupMenuItem(self, order, submenu),
\* or None when the function falls off its end
ModelAdminGroup_get_menu_item(self) ==
  IF self.modeladmin_instances # <<>> THEN
    [type |-> "GroupMenuItem", modeladmin_group |-> self.id,
     order |-> ModelAdminGroup_get_menu_order(self),
     submenu |-> [type |-> "SubMenu",
                  menu_items |-> SubMenuItems(self.modeladmin_instances,
                                              <<>>, 0)]]
  ELSE PyNone

\* ModelAdminGroup.get_permissions_for_registration(self): qs = qs | child's
RECURSIVE ModelAdminGroup_permissions_loop(_, _, _)
ModelAdminGroup_permissions_loop(instances, qs, snippets) ==
  IF instances = <<>> THEN qs
  ELSE ModelAdminGroup_permissions_loop(Tail(instances),
         qs \cup ModelAdmin_get_permissions_for_registration(
                   Head(instances), snippets),
         snippets)

ModelAdminGroup_get_permissions_for_registration(self, snippets) ==
  ModelAdminGroup_permissions_loop(self.modeladmin_instances, {}, snippets)

\* mutant: each child's routes are put in front of those gathered so far
RECURSIVE ModelAdminGroup_urls_loop_Prepend(_, _)
ModelAdminGroup_urls_loop_Prepend(instances, urls) ==
  IF instances = <<>> THEN urls
  ELSE ModelAdminGroup_urls_loop_Prepend(Tail(instances),
         ModelAdmin_get_admin_urls_for_registration(Head(instances)) \o urls)

\* ModelAdminGroup.get_admin_urls_for_registration(self): urls.extend(child's)
RECURSIVE ModelAdminGroup_urls_loop(_, _)
ModelAdminGroup_urls_loop(instances, urls) ==
  IF instances = <<>> THEN urls
  ELSE ModelAdminGroup_urls_loop(Tail(instances),
         urls \o ModelAdmin_get_admin_urls_for_registration(Head(instances)))

ModelAdminGroup_get_admin_urls_for_registration(self) ==
  ModelAdminGroup_urls_loop(self.modeladmin_instances, <<>>)

(***************************************************************************)
(* Method dispatch on the class of self                                    *)
(***************************************************************************)
get_menu_order(self) ==
  IF self.kind = "ModelAdmin" THEN ModelAdmin_get_menu_order(self)
  ELSE ModelAdminGroup_get_menu_order(self)

get_menu_item(self) ==
  IF self.kind = "ModelAdmin" THEN ModelAdmin_get_menu_item(self, PyNone)
  ELSE ModelAdminGroup_get_menu_item(self)

get_permissions_for_registration(self, snippets) ==
  IF self.kind = "ModelAdmin"
  THEN ModelAdmin_get_permissions_for_registration(self, snippets)
  ELSE ModelAdminGroup_get_permissions_for_registration(self, snippets)

get_admin_urls_for_registration(self) ==
  IF self.kind = "ModelAdmin"
  THEN ModelAdmin_get_admin_urls_for_registration(self)
  ELSE ModelAdminGroup_get_admin_urls_for_registration(self)

(***************************************************************************)
(* WagtailRegisterable and wagtail's hook registry                         *)
(***************************************************************************)
HookNames ==
  {"register_permissions", "register_admin_urls", "register_admin_menu_item"}

\* wagtail.wagtailcore.hooks.register(hook_name) applied to fn: appends fn
\* to the list kept for hook_name.  fn is a closure over `self`.
hooks_register(hks, hook_name, self) ==
  [hks EXCEPT ![hook_name] =
     Append(@, [fn |-> hook_name, self |-> self])]

\* mutant: the third function is decorated with the second hook's name
register_with_wagtail_WrongHook(self, hks) ==
  [hooks |->
     hooks_register(
       hooks_register(
         hooks_register(hks, "register_permissions", self),
         "register_admin_urls", self),
       "register_admin_urls", self),
   called |-> {}]

\* WagtailRegisterable.register_with_wagtail(self): three decorated function
\* definitions; `called` is the set of methods of self it invokes meanwhile
register_with_wagtail(self, hks) ==
  [hooks |->
     hooks_register(
       hooks_register(
         hooks_register(hks, "register_permissions", self),
         "register_admin_urls", self),
       "register_admin_menu_item", self),
   called |-> {}]

\* the body of the closure registered under hook_name, run by the host
RunCallback(cb, snippets) ==
  CASE cb.fn = "register_permissions" ->
         [ret |-> get_permissions_for_registration(cb.self, snippets),
          called |-> {<<"get_permissions_for_registration", cb.self.id>>}]
    [] cb.fn = "register_admin_urls" ->
         [ret |-> get_admin_urls_for_registration(cb.self),
          called |-> {<<"get_admin_urls_for_registration", cb.self.id>>}]
    [] cb.fn = "register_admin_menu_item" ->
         [ret |-> get_menu_item(cb.self),
          called |-> {<<"get_menu_item", cb.self.id>>}]

(***************************************************************************)
(* State                                                                   *)
(*   hooks           wagtail's registry: hook name -> list of callbacks    *)
(*   instance        the object a caller constructed and holds             *)
(*   result          the last call: what was called, what it returned or   *)
(*                   raised, and which registration methods ran meanwhile  *)
(*   SNIPPET_MODELS  wagtailsnippets' list of registered snippet models    *)
(*   next_id         identity of the next object allocated                 *)
(***************************************************************************)
Outcome(op, arg, raised, ret, called) ==
  [op |-> op, arg |-> arg, raised |-> raised, ret |-> ret, called |-> called]

SnippetChoices == {{}, {"lib.Book"}}

Init ==
  /\ hooks = [h \in HookNames |-> <<>>]
  /\ instance = NoInstance
  /\ result = Outcome("start", PyNone, "", PyNone, {})
  /\ SNIPPET_MODELS \in SnippetChoices
  /\ next_id = 1

\* the method of self that the closure registered under hook_name calls
MethodName(hook_name) ==
  CASE hook_name = "register_permissions" ->
         "get_permissions_for_registration"
    [] hook_name = "register_admin_urls" -> "get_admin_urls_for_registration"
    [] hook_name = "register_admin_menu_item" -> "get_menu_item"

\* mutant: get_menu_order stores the value it computed on the instance
\* (`self.menu_order = self.menu_order or 999`)
AfterCall_StoresMenuOrder(self, method) ==
  IF method \in {"get_menu_order", "get_menu_item"}
  THEN [self EXCEPT !.cls.menu_order = PyInt(get_menu_order(self))]
  ELSE self

\* self as `method` leaves it: outside __init__ no method of ModelAdmin,
\* ModelAdminGroup or WagtailRegisterable assigns to an attribute of self
\* or appends to modeladmin_instances
AfterCall(self, method) == self

\* the registry with obj seen through every closure that refers to it
Store(hks, obj) ==
  [h \in HookNames |->
     [k \in 1..Len(hks[h]) |->
        IF hks[h][k].self.id = obj.id
        THEN [hks[h][k] EXCEPT !.self = obj]
        ELSE hks[h][k]]]

\* obj, as a call left it, is what every reference to that object now sees
Written(obj) ==
  /\ instance' = IF instance # NoInstance /\ instance.id = obj.id
                 THEN obj ELSE instance
  /\ hooks' = Store(hooks, obj)

(***************************************************************************)
(* Startup: wagtailmodeladmin_register, then the host running the hooks    *)
(***************************************************************************)
\* wagtailmodeladmin_register(wagtailmodeladmin_class)
wagtailmodeladmin_register(cls) ==
  /\ Len(hooks["register_permissions"]) < MaxRegistered
  /\ LET c == Construct(cls, next_id) IN
       IF c.raised # "" THEN
         /\ result' = Outcome("wagtailmodeladmin_register", cls, c.raised,
                              PyNone, {})
         /\ UNCHANGED <<hooks, next_id>>
       ELSE
         LET r == register_with_wagtail(c.self, hooks) IN
         /\ hooks' = r.hooks
         /\ next_id' = next_id + Allocated(cls)
         /\ result' = Outcome("wagtailmodeladmin_register", cls, "",
                              PyNone, r.called)
  /\ UNCHANGED <<instance, SNIPPET_MODELS>>

\* the host calls the i-th function registered under hook_name
HostRunsHook(hook_name, i) ==
  /\ i \in 1..Len(hooks[hook_name])
  /\ LET r == RunCallback(hooks[hook_name][i], SNIPPET_MODELS) IN
       result' = Outcome(hook_name, i, "", r.ret, r.called)
  /\ Written(AfterCall(hooks[hook_name][i].self, MethodName(hook_name)))
  /\ UNCHANGED <<SNIPPET_MODELS, next_id>>

Next ==
  \/ \E cls \in StartupClasses : wagtailmodeladmin_register(cls)
  \/ \E h \in HookNames : \E i \in 1..MaxRegistered : HostRunsHook(h, i)

Spec == Init /\ [][Next]_vars

(***************************************************************************)
(* Direct use: a caller constructs one object and calls its methods        *)
(***************************************************************************)
New(cls) ==
  /\ instance = NoInstance
  /\ result.op = "start"
  /\ LET c == Construct(cls, next_id) IN
       /\ instance' = c.self
       /\ result' = Outcome("__init__", cls, c.raised, PyNone, {})
       /\ next_id' = IF c.raised = "" THEN next_id + Allocated(cls)
                     ELSE next_id
  /\ UNCHANGED <<hooks, SNIPPET_MODELS>>

NewModelAdmin == \E cls \in ModelAdminClasses : New(cls)

NewModelAdminGroup == \E cls \in ModelAdminGroupClasses : New(cls)

Call_get_menu_order ==
  /\ instance # NoInstance
  /\ result' = Outcome("get_menu_order", PyNone, "",
                       get_menu_order(instance), {})
  /\ Written(AfterCall(instance, "get_menu_order"))
  /\ UNCHANGED <<SNIPPET_MODELS, next_id>>

Call_get_menu_item ==
  /\ instance # NoInstance
  /\ result' = Outcome("get_menu_item", PyNone, "", get_menu_item(instance),
                       {<<"get_menu_item", instance.id>>})
  /\ Written(AfterCall(instance, "get_menu_item"))
  /\ UNCHANGED <<SNIPPET_MODELS, next_id>>

Call_template_getter(action) ==
  /\ instance # NoInstance
  /\ instance.kind = "ModelAdmin"
  /\ result' = Outcome("get_template", action, "",
                       TemplateGetter(instance, action), {})
  /\ Written(AfterCall(instance, "get_template"))
  /\ UNCHANGED <<SNIPPET_MODELS, next_id>>

Call_get_permissions_for_registration ==
  /\ instance # NoInstance
  /\ result' = Outcome("get_permissions_for_registration", PyNone, "",
                 get_permissions_for_registration(instance, SNIPPET_MODELS),
                 {<<"get_permissions_for_registration", instance.id>>})
  /\ Written(AfterCall(instance, "get_permissions_for_registration"))
  /\ UNCHANGED <<SNIPPET_MODELS, next_id>>

Call_get_admin_urls_for_registration ==
  /\ instance # NoInstance
  /\ result' = Outcome("get_admin_urls_for_registration", PyNone, "",
                 get_admin_urls_for_registration(instance),
                 {<<"get_admin_urls_for_registration", instance.id>>})
  /\ Written(AfterCall(instance, "get_admin_urls_for_registration"))
  /\ UNCHANGED <<SNIPPET_MODELS, next_id>>

\* instance.<x>_view(request[, object_id]), called by the URL resolver
Call_view(view, object_id) ==
  /\ instance # NoInstance
  /\ instance.kind = "ModelAdmin"
  /\ (view \in ObjectViewMethods) <=> (object_id # "")
  /\ result' = Outcome("view", <<view, object_id>>, "",
                       view_dispatch(instance, view, object_id), {})
  /\ Written(AfterCall(instance, view))
  /\ UNCHANGED <<SNIPPET_MODELS, next_id>>

\* instance.register_with_wagtail()
Call_register_with_wagtail ==
  /\ instance # NoInstance
  /\ Len(hooks["register_permissions"]) < MaxSelfRegistered
  /\ LET r == register_with_wagtail(instance, hooks) IN
       /\ result' = Outcome("register_with_wagtail", PyNone, "", PyNone,
                            r.called)
       /\ instance' = AfterCall(instance, "register_with_wagtail")
       /\ hooks' = Store(r.hooks, AfterCall(instance, "register_with_wagtail"))
  /\ UNCHANGED <<SNIPPET_MODELS, next_id>>

NextCalls ==
  \/ NewModelAdmin
  \/ NewModelAdminGroup
  \/ Call_get_menu_order
  \/ Call_get_menu_item
  \/ \E a \in RenderableActions : Call_template_getter(a)
  \/ Call_get_permissions_for_registration
  \/ Call_get_admin_urls_for_registration
  \/ \E v \in ViewMethods : \E o \in ObjectIds \cup {""} : Call_view(v, o)
  \/ Call_register_with_wagtail
  \/ \E h \in HookNames : \E i \in 1..MaxRegistered : HostRunsHook(h, i)

SpecCalls == Init /\ [][NextCalls]_vars

(***************************************************************************)
(* Properties                                                              *)
(***************************************************************************)
\* is m a class derived from django's Model
ValidModel(m) == m.t = "class" /\ IsSubclassName(m.v, ModelBase)

IsModelAdmin(x) == x # NoInstance /\ x.kind = "ModelAdmin"
IsGroup(x) == x # NoInstance /\ x.kind = "ModelAdminGroup"

\* C1: constructing a ModelAdmin class whose `model` is unset or is not a
\* valid model type raises ImproperlyConfigured and yields no instance;
\* with a valid model type construction succeeds.
C1_ConstructionFailsWithConfigurationError ==
  (result.op = "__init__" /\ result.arg.kind = "ModelAdmin") =>
    IF ValidModel(result.arg.model)
    THEN result.raised = "" /\ IsModelAdmin(instance)
    ELSE result.raised = "ImproperlyConfigured" /\ instance = NoInstance

\* C2: get_menu_order() returns the declared menu_order whenever one is set
\* (0 included) and 999 only when menu_order is not set.
C2_MenuOrderDeclaredOrDefault ==
  result.op = "get_menu_order" =>
    result.ret = IF instance.cls.menu_order.t = "int"
                 THEN instance.cls.menu_order.v
                 ELSE 999

\* C3: a group with children c1..cn, n >= 1, returns one group menu item
\* whose submenu has exactly n items, the i-th built from ci with order i,
\* whatever menu_order the children declare.
C3_SubmenuSequentialOrder ==
  (result.op = "get_menu_item" /\ IsGroup(instance)
     /\ Len(instance.modeladmin_instances) >= 1) =>
    /\ result.ret.type = "GroupMenuItem"
    /\ result.ret.modeladmin_group = instance.id
    /\ Len(result.ret.submenu.menu_items) = Len(instance.modeladmin_instances)
    /\ \A i \in 1..Len(instance.modeladmin_instances) :
         result.ret.submenu.menu_items[i] =
           [type |-> "ModelAdminMenuItem",
            model_admin |-> instance.modeladmin_instances[i].id,
            order |-> i]

\* a group of several children, the first of which declares a menu_order
\* other than its position, was asked for its menu item
C3_Witness ==
  /\ result.op = "get_menu_item"
  /\ IsGroup(instance)
  /\ Len(instance.modeladmin_instances) >= 2
  /\ instance.modeladmin_instances[1].cls.menu_order.t = "int"
  /\ instance.modeladmin_instances[1].cls.menu_order.v # 1
  /\ instance.modeladmin_instances[2].cls.menu_order.t = "None"

\* C4: a group yields a menu item if and only if it has at least one child;
\* with zero children get_menu_item yields None and no submenu is built.
C4_NoChildrenNoMenuItem ==
  (result.op = "get_menu_item" /\ IsGroup(instance)) =>
    /\ (result.ret = PyNone) <=> (instance.modeladmin_instances = <<>>)
    /\ (result.ret # PyNone) => result.ret.type = "GroupMenuItem"

C4_Witness ==
  /\ result.op = "get_menu_item"
  /\ IsGroup(instance)
  /\ instance.modeladmin_instances = <<>>
  /\ result.ret = PyNone

\* the seven actions in route order, and the view method of each
RouteActions ==
  <<"index", "create", "choose_parent", "edit", "confirm_delete",
    "unpublish", "copy">>

ObjectSpecificActions == {"edit", "confirm_delete", "unpublish", "copy"}

\* C5: a ModelAdmin's get_admin_urls_for_registration() returns exactly
\* seven routes, in the order index, create, choose_parent, edit,
\* confirm_delete, unpublish, copy, each bound to the matching view method
\* of that instance, with pairwise distinct names of the form
\* <app>_<model>_modeladmin_<action>; the first three use the plain pattern
\* and the last four the pattern that requires an identifier segment.
C5_SevenRoutes ==
  (result.op = "get_admin_urls_for_registration" /\ IsModelAdmin(instance)) =>
    LET urls == result.ret
        app == Meta(instance.cls.model.v).app_label
        model == Meta(instance.cls.model.v).model_name
    IN /\ Len(urls) = 7
       /\ \A i \in 1..7 :
            /\ urls[i].callback =
                 [self |-> instance.id, func |-> RouteActions[i] \o "_view"]
            /\ urls[i].name =
                 app \o "_" \o model \o "_modeladmin_" \o RouteActions[i]
            /\ urls[i].regex =
                 IF RouteActions[i] \in ObjectSpecificActions
                 THEN app \o "/" \o model \o "/" \o RouteActions[i]
                        \o "/<id>/"
                 ELSE IF RouteActions[i] = "index"
                 THEN app \o "/" \o model \o "/"
                 ELSE app \o "/" \o model \o "/" \o RouteActions[i] \o "/"
       /\ \A i, j \in 1..7 : i # j => urls[i].name # urls[j].name

C5_Witness ==
  /\ result.op = "get_admin_urls_for_registration"
  /\ IsModelAdmin(instance)
  /\ instance.is_pagemodel
  /\ Len(result.ret) = 7

\* does row p of the permission table belong to the model of class name c
RowOfModel(p, c) ==
  p.app_label = Meta(c).app_label /\ p.model = Meta(c).model_name

\* C6: a ModelAdmin's get_permissions_for_registration() is empty when the
\* model is page-like or registered as a snippet; otherwise it holds exactly
\* the rows of the permission table whose app label and model name are the
\* model's.
C6_PermissionsOfModel ==
  (result.op = "get_permissions_for_registration"
     /\ IsModelAdmin(instance)) =>
    LET c == instance.cls.model.v IN
    IF IsSubclassName(c, PageBase) \/ c \in SNIPPET_MODELS
    THEN result.ret = {}
    ELSE /\ result.ret \subseteq PermissionTable
         /\ \A p \in PermissionTable : p \in result.ret <=> RowOfModel(p, c)

\* a plain model's rows were returned while the table also holds rows of
\* the same model name in another app
C6_Witness ==
  /\ result.op = "get_permissions_for_registration"
  /\ IsModelAdmin(instance)
  /\ result.ret # {}
  /\ \E p \in PermissionTable \ result.ret :
       p.model = instance.opts.model_name

\* the fallback list with a given path prefix
FallbackList(prefix, app, model, action) ==
  << prefix \o app \o "/" \o model \o "/" \o action \o ".html",
     prefix \o app \o "/" \o action \o ".html",
     prefix \o action \o ".html" >>

TemplatesAsClaimed(prefix) ==
  (result.op = "get_template" /\ IsModelAdmin(instance)) =>
    LET override == instance.cls.template_names[result.arg]
        app == Meta(instance.cls.model.v).app_label
        model == Meta(instance.cls.model.v).model_name
    IN IF override # ""
       THEN result.ret = [t |-> "str", v |-> override]
       ELSE result.ret =
              [t |-> "list",
               v |-> FallbackList(prefix, app, model, result.arg)]

\* C7 as stated: the template getter of each renderable action returns the
\* override when set, else the list modeladmin/<app>/<model>/<action>.html,
\* modeladmin/<app>/<action>.html, modeladmin/<action>.html.
C7_TemplatesAsStated == TemplatesAsClaimed("modeladmin/")

\* C7 amended: the same, the three paths starting with wagtailmodeladmin/
C7_TemplatesAmended == TemplatesAsClaimed("wagtailmodeladmin/")

C7_Witness ==
  /\ result.op = "get_template"
  /\ result.arg = "choose_parent"
  /\ result.ret.t = "list"
  /\ instance.cls.template_names["index"] # ""

\* C8: a group's get_admin_urls_for_registration() is the concatenation of
\* its children's own results in declaration order (7*n entries), and its
\* get_permissions_for_registration() is the union of its children's own
\* results, page-like and snippet-registered children contributing nothing.
C8_GroupAggregates ==
  /\ (result.op = "get_admin_urls_for_registration" /\ IsGroup(instance)) =>
       LET kids == instance.modeladmin_instances IN
       /\ Len(result.ret) = 7 * Len(kids)
       /\ \A i \in 1..Len(kids) : \A k \in 1..7 :
            result.ret[7 * (i - 1) + k] =
              ModelAdmin_get_admin_urls_for_registration(kids[i])[k]
  /\ (result.op = "get_permissions_for_registration" /\ IsGroup(instance)) =>
       LET kids == instance.modeladmin_instances IN
       /\ result.ret =
            UNION {ModelAdmin_get_permissions_for_registration(
                     kids[i], SNIPPET_MODELS) : i \in 1..Len(kids)}
       /\ \A p \in result.ret : \E i \in 1..Len(kids) :
            /\ RowOfModel(p, kids[i].cls.model.v)
            /\ ~kids[i].is_pagemodel
            /\ kids[i].cls.model.v \notin SNIPPET_MODELS

\* a group of two children of different models returned its routes
C8_Witness ==
  /\ result.op = "get_admin_urls_for_registration"
  /\ IsGroup(instance)
  /\ Len(instance.modeladmin_instances) >= 2
  /\ instance.modeladmin_instances[1].cls.model
       # instance.modeladmin_instances[2].cls.model

\* the method the closure registered under a hook calls
MethodOf(hook_name) ==
  CASE hook_name = "register_permissions" ->
         "get_permissions_for_registration"
    [] hook_name = "register_admin_urls" -> "get_admin_urls_for_registration"
    [] hook_name = "register_admin_menu_item" -> "get_menu_item"

\* what that method returns when called on x now
MethodResult(hook_name, x) ==
  CASE hook_name = "register_permissions" ->
         get_permissions_for_registration(x, SNIPPET_MODELS)
    [] hook_name = "register_admin_urls" -> get_admin_urls_for_registration(x)
    [] hook_name = "register_admin_menu_item" -> get_menu_item(x)

\* a step that registers: each of the three extension points gains exactly
\* one callback, closed over the instance just constructed, and none of the
\* three registration methods has run
C9_RegisterStep ==
  (hooks' # hooks \/ next_id' # next_id) =>
    /\ result'.op = "wagtailmodeladmin_register"
    /\ result'.raised = ""
    /\ result'.called = {}
    /\ \A h \in HookNames :
         hooks'[h] =
           Append(hooks[h],
                  [fn |-> h, self |-> Construct(result'.arg, next_id).self])

\* a registration method has run only in a callback the host invoked, on the
\* instance registered with that callback, and its result is what the
\* callback returned
C9_CallbackRun ==
  /\ DOMAIN hooks = HookNames
  /\ \A h \in HookNames : Len(hooks[h]) = Len(hooks["register_permissions"])
  /\ result.called # {} => result.op \in HookNames
  /\ result.op \in HookNames =>
       LET registered == hooks["register_permissions"][result.arg].self IN
       /\ hooks[result.op][result.arg].self = registered
       /\ result.called = {<<MethodOf(result.op), registered.id>>}
       /\ result.ret = MethodResult(result.op, registered)

\* C9: one register_with_wagtail() registers exactly three zero-argument
\* callbacks, one per extension point, and runs none of the registration
\* methods; each runs only when the host invokes its callback, on the
\* registered instance, and its result is the callback's.
C9_LazyRegistration == [][C9_RegisterStep]_vars /\ []C9_CallbackRun

\* the host ran the menu-item callback of the second of two registered
\* instances, a group
C9_Witness ==
  /\ result.op = "register_admin_menu_item"
  /\ result.arg = 2
  /\ IsGroup(hooks["register_admin_menu_item"][2].self)
  /\ IsModelAdmin(hooks["register_admin_menu_item"][1].self)
  /\ result.ret # PyNone

\* a class whose construction must fail: a ModelAdmin with an invalid model,
\* or a group one of whose items has an invalid model
InvalidClass(cls) ==
  IF cls.kind = "ModelAdmin" THEN ~ValidModel(cls.model)
  ELSE \E i \in 1..Len(cls.items) : ~ValidModel(cls.items[i].model)

\* C10: wagtailmodeladmin_register of a ModelAdmin with an invalid model, or
\* of a group any of whose children has one, raises the configuration error
\* (ImproperlyConfigured) before register_with_wagtail runs: no hook
\* callback is registered.
C10_ConfigErrorBeforeRegistration ==
  [][(result'.op = "wagtailmodeladmin_register"
        /\ InvalidClass(result'.arg)) =>
       (result'.raised = "ImproperlyConfigured" /\ hooks' = hooks)]_vars

\* the part of C10 that the code keeps: whatever the constructor raises, a
\* class with an invalid model leaves the hook registry as it was
C10_NoCallbackForInvalidClass ==
  [][(result'.op = "wagtailmodeladmin_register"
        /\ InvalidClass(result'.arg)) =>
       (result'.raised # "" /\ hooks' = hooks)]_vars

\* what a direct call returns on object x
DirectResult(op, arg, x) ==
  CASE op = "get_menu_order" -> get_menu_order(x)
    [] op = "get_menu_item" -> get_menu_item(x)
    [] op = "get_template" -> TemplateGetter(x, arg)
    [] op = "get_permissions_for_registration" ->
         get_permissions_for_registration(x, SNIPPET_MODELS)
    [] op = "get_admin_urls_for_registration" ->
         get_admin_urls_for_registration(x)
    [] op = "view" -> view_dispatch(x, arg[1], arg[2])

DirectOps ==
  {"get_menu_order", "get_menu_item", "get_template",
   "get_permissions_for_registration", "get_admin_urls_for_registration",
   "view"}

\* a step taken once an object exists: the object the caller holds and the
\* object behind every registered callback keep all their attributes, and
\* what the step's call returned is what the same call returns on the
\* objects as the step left them
C11_Step ==
  /\ instance # NoInstance => instance' = instance
  /\ \A h \in HookNames : \A k \in 1..Len(hooks[h]) :
       /\ k <= Len(hooks'[h])
       /\ hooks'[h][k] = hooks[h][k]
  /\ (instance # NoInstance /\ result'.op \in DirectOps) =>
       result'.ret = DirectResult(result'.op, result'.arg, instance')
  /\ result'.op \in HookNames =>
       result'.ret = MethodResult(result'.op,
                                  hooks'[result'.op][result'.arg].self)

\* C11: after construction no getter, view dispatch, hook callback or
\* register_with_wagtail writes configuration state: the instance's
\* attributes (model, opts, is_pagemodel, parent, permission_helper, menu
\* settings, the group's ordered modeladmin_instances) stay as they are
\* over any sequence of these calls, so a repeated call or callback returns
\* what the first returned.
C11_NoWriteAfterConstruction == [][C11_Step]_vars

\* a registered group with children has had its menu-item callback run
C11_Witness ==
  /\ result.op = "register_admin_menu_item"
  /\ result.arg = 1
  /\ IsGroup(instance)
  /\ Len(instance.modeladmin_instances) >= 2
  /\ instance.cls.menu_order = PyNone
  /\ hooks["register_admin_menu_item"][1].self.id = instance.id

====
